---------------------------- MODULE Spec2Model ----------------------------
(***************************************************************************)
(* The planet procedure registry (list / find / create) in its two forms,  *)
(* the KV-backed router and the in-memory router, and the Hono dispatch of *)
(* app/backend/server.ts in front of them.                                 *)
(*                                                                         *)
(* Spec          procedure invocations against one registry; every await   *)
(*               of a handler is a point where other invocations may run.  *)
(* SpecDispatch  inbound HTTP requests going through the three route       *)
(*               stages of server.ts, and the context each procedure       *)
(*               invocation made for them receives.                        *)
(* SpecCalls     invocations that carry the caller's headers, over a KV    *)
(*               store whose reads and writes may be rejected.             *)
(* SpecDrift     the same invocations of the KV router over stored         *)
(*               documents that do not satisfy PlanetSchema.               *)
(* SpecPage      visits of the index page: loader prefetch, dehydrated     *)
(*               state, the browser's cache, Home and ErrorBoundary.       *)
(***************************************************************************)
EXTENDS Integers, Sequences, FiniteSets, TLC

\* Number of procedure invocations of one behaviour (they may overlap).
MaxReqs == 3
\* Number of inbound HTTP requests of one behaviour (they may overlap).
MaxHttp == 2
\* Number of invocations where storage may fail and callers send credentials.
MaxCalls == 2
\* Number of page visits of one behaviour.
MaxPages == 1

VARIABLES
    registry,   \* which router module the server was built with: "kv" | "memory"
    kv,         \* the KV namespace: key -> stored JSON document
    planets,    \* the module-level array of the in-memory router
    pc,         \* per invocation: "idle" | "get" | "put" | "done"
    proc,       \* per invocation: "list" | "find" | "create" | "none"
    input,      \* per invocation: the input as received (JSON object)
    local,      \* per invocation: the handler's const planets (result of its read)
    result,     \* per invocation: how the call ended
    log,        \* per invocation: the pipeline stages that ran, in order
    ctxHeaders, \* per invocation: the headers of the context it was called with
    hpc,        \* per HTTP request: "new" | "rpc" | "api" | "render" | "done"
    path,       \* per HTTP request: the segments of its URL path
    headers,    \* per HTTP request: its headers
    trace,      \* per HTTP request: the route handlers entered, in order
    responses,  \* per HTTP request: the route handlers that returned a Response
    globalClient,   \* globalThis.$orpcClient: the request its context is bound to
    moduleClient,   \* the const client of the orpc module, once it is loaded
    invocations,    \* the procedure invocations made, with the context each got
    ppc,        \* per page visit: how far the visit has come
    prefetch,   \* per page visit: how the loader's prefetch ended
    snapshot,   \* per page visit: the dehydrated cache the loader returned
    clientCache,    \* per page visit: the query cache of the browser
    shown,      \* per page visit: what the page displays
    raised,     \* per page visit: the error the route's ErrorBoundary received
    calls       \* the procedure calls issued by loaders and by browsers

procVars == <<registry, kv, planets, pc, proc, input, local, result, log, ctxHeaders>>

pageVars == <<ppc, prefetch, snapshot, clientCache, shown, raised, calls>>

dispatchVars ==
    <<hpc, path, headers, trace, responses, globalClient, moduleClient, invocations>>

vars == <<procVars, dispatchVars, pageVars>>

Reqs == 1..MaxReqs

Https == 1..MaxHttp

Calls == 1..MaxCalls

Pages == 1..MaxPages

-----------------------------------------------------------------------------
(* JSON values as they arrive on the wire and as they sit in the KV store. *)

Num(n) == [t |-> "number", n |-> n]
Str(s) == [t |-> "string", s |-> s]

EmptyObject == [k \in {} |-> Num(0)]

\* JSON.stringify of one object: every defined field becomes a JSON value.
ToJson(e) == [k \in DOMAIN e |-> IF k = "id" THEN Num(e[k]) ELSE Str(e[k])]

\* JSON.parse of one object.
FromJson(j) == [k \in DOMAIN j |-> IF j[k].t = "number" THEN j[k].n ELSE j[k].s]

JSONStringify(arr) == [i \in 1..Len(arr) |-> ToJson(arr[i])]

JSONParse(doc) == [i \in 1..Len(doc) |-> FromJson(doc[i])]

-----------------------------------------------------------------------------
(* The zod schemas.                                                        *)

\* PlanetSchema, applied to a handler result (z.object strips unknown keys).
PlanetOk(e) ==
    /\ "id" \in DOMAIN e /\ e.id >= 1
    /\ "name" \in DOMAIN e

PlanetParse(e) == [k \in DOMAIN e \cap {"id", "name", "description"} |-> e[k]]

\* z.object({ limit: int 1..100 optional, cursor: int >= 0 default 0 })
ListInputOk(i) ==
    /\ "limit" \in DOMAIN i => (i.limit.t = "number" /\ i.limit.n >= 1 /\ i.limit.n <= 100)
    /\ "cursor" \in DOMAIN i => (i.cursor.t = "number" /\ i.cursor.n >= 0)

\* PlanetSchema.pick({ id: true })
FindInputOk(i) == "id" \in DOMAIN i /\ i.id.t = "number" /\ i.id.n >= 1

FindInputParse(i) == [id |-> i.id.n]

\* PlanetSchema.omit({ id: true })
CreateInputOk(i) ==
    /\ "name" \in DOMAIN i /\ i.name.t = "string"
    /\ "description" \in DOMAIN i => i.description.t = "string"

CreateInputParse(i) == [k \in DOMAIN i \cap {"name", "description"} |-> i[k].s]

\* The inputs a caller may send, valid and invalid.
ListInputs == {EmptyObject, [limit |-> Num(0)], [cursor |-> Num(-1)]}

FindInputs == {[id |-> Num(n)] : n \in {0, 1, 2, 3, 99}} \cup {[id |-> Str("1")]}

CreateInputs ==
    { [name |-> Str("A")], [name |-> Str("B")],
      [name |-> Str("A"), description |-> Str("d")],
      [name |-> Num(7)], [description |-> Str("d")] }

\* The headers of a caller that sends no Authorization header.
NoAuthorization == "none"

\* The headers a caller may send: none, or a bearer token.
CallHeaders == {NoAuthorization, "Bearer default-token"}

-----------------------------------------------------------------------------
(* How an invocation ends.                                                 *)

Pending == [status |-> "pending"]
Ok(v) == [status |-> "ok", value |-> v]
\* A handler that returned undefined: a success that carries no value.
OkUndefined == [status |-> "ok"]
\* throw new ORPCError(code)
Fail(code) == [status |-> "error", code |-> code]
\* The input did not pass the procedure's .input() schema.
InputRejected == [status |-> "input_invalid"]
\* The handler result did not pass the procedure's .output() schema.
OutputRejected == [status |-> "output_invalid"]
\* context.KV.get or context.KV.put rejected and the handler did not catch it.
StorageFailed == [status |-> "storage_failed"]

-----------------------------------------------------------------------------
(* The handlers' computations.                                             *)

\* context.KV.get("planets", { type: "json" })
KVHas(key) == key \in DOMAIN kv

\* (await context.KV.get("planets", { type: "json" })) || []
KVGetPlanets == IF KVHas("planets") THEN JSONParse(kv["planets"]) ELSE <<>>

\* The record as a sequence of entities, an absent record being empty.
Record == IF registry = "kv" THEN KVGetPlanets ELSE planets

\* Array.prototype.find(p => p.id === id): the index of the first match, 0 if none.
FindIndex(arr, id) ==
    IF \E i \in 1..Len(arr) : "id" \in DOMAIN arr[i] /\ arr[i].id = id
    THEN CHOOSE i \in 1..Len(arr) :
            /\ "id" \in DOMAIN arr[i] /\ arr[i].id = id
            /\ \A j \in 1..(i - 1) : "id" \in DOMAIN arr[j] => arr[j].id # id
    ELSE 0

\* Variant: the page starts after the first entity.
KVListResultSkipFirst(arr) ==
    Ok([i \in 1..(Len(arr) - 1) |-> PlanetParse(arr[i + 1])])

\* Variant: the procedure declares no output schema.
KVListResultUnchecked(arr) == Ok(arr)

\* Variant: the output schema asks for at least one planet.
KVListResultNonEmpty(arr) ==
    IF arr # <<>> /\ \A i \in 1..Len(arr) : PlanetOk(arr[i])
    THEN Ok([i \in 1..Len(arr) |-> PlanetParse(arr[i])])
    ELSE OutputRejected

\* listPlanet of the KV router: the record, checked against z.array(PlanetSchema).
KVListResult(arr) ==
    IF \A i \in 1..Len(arr) : PlanetOk(arr[i])
    THEN Ok([i \in 1..Len(arr) |-> PlanetParse(arr[i])])
    ELSE OutputRejected

\* findPlanet of the KV router.
KVFindResult(arr, in) ==
    IF FindIndex(arr, in.id) = 0 THEN Fail("NOT_FOUND") ELSE Ok(arr[FindIndex(arr, in.id)])

\* listPlanet of the in-memory router: no output schema.
MemListResult(arr) == Ok(arr)

\* findPlanet of the in-memory router: whatever Array.find gives.
MemFindResult(arr, in) ==
    IF FindIndex(arr, in.id) = 0 THEN OkUndefined ELSE Ok(arr[FindIndex(arr, in.id)])

\* What a call returns that reads the record arr, nothing else running in
\* between.
ListOf(arr) == IF registry = "kv" THEN KVListResult(arr) ELSE MemListResult(arr)

FindOf(arr, id) ==
    IF registry = "kv" THEN KVFindResult(arr, [id |-> id]) ELSE MemFindResult(arr, [id |-> id])

\* Variant: the commented-out check is active: no bearer token, no call.
AuthMiddlewareEnforced(h) == IF h = NoAuthorization THEN "UNAUTHORIZED" ELSE "next"

\* The middleware of createPlanet: ({ context, next }) => next()
AuthMiddleware(h) == "next"

\* Variant: the id is the length itself.
NewPlanetIdIsLength(arr, in) == [id |-> Len(arr), name |-> in.name]

\* const newPlanet = { id: planets.length + 1, name: input.name }
NewPlanet(arr, in) == [id |-> Len(arr) + 1, name |-> in.name]

\* Variant: the new entity is appended to the record as it is at write time
\* instead of to the handler's own copy.
PutDocumentOntoCurrent(arr, new) == JSONStringify(Append(KVGetPlanets, new))

\* JSON.stringify([...planets, newPlanet])
PutDocument(arr, new) == JSONStringify(Append(arr, new))

-----------------------------------------------------------------------------
(* Invocations of the KV router.  A handler runs up to its next await in   *)
(* one step; the KV read and the KV write are separate steps.              *)

Finish(p, r) ==
    /\ pc' = [pc EXCEPT ![p] = "done"]
    /\ result' = [result EXCEPT ![p] = r]

\* The call enters the pipeline: input validation, then the handler up to
\* its await of KV.get.
KVListCall(p, in, h) ==
    /\ registry = "kv" /\ pc[p] = "idle"
    /\ proc' = [proc EXCEPT ![p] = "list"]
    /\ input' = [input EXCEPT ![p] = in]
    /\ ctxHeaders' = [ctxHeaders EXCEPT ![p] = h]
    /\ IF ListInputOk(in)
       THEN /\ pc' = [pc EXCEPT ![p] = "get"]
            /\ log' = [log EXCEPT ![p] = <<"validate", "handler">>]
            /\ UNCHANGED result
       ELSE /\ Finish(p, InputRejected)
            /\ log' = [log EXCEPT ![p] = <<"validate">>]
    /\ UNCHANGED <<registry, kv, planets, local>>
    /\ UNCHANGED <<dispatchVars, pageVars>>

\* Variant: a list that finds no record stores an empty one.
KVListGetInitialises(p) ==
    /\ registry = "kv" /\ pc[p] = "get" /\ proc[p] = "list"
    /\ local' = [local EXCEPT ![p] = KVGetPlanets]
    /\ Finish(p, KVListResult(KVGetPlanets))
    /\ log' = [log EXCEPT ![p] = Append(@, "get")]
    /\ kv' = IF KVHas("planets") THEN kv ELSE [k \in {"planets"} |-> JSONStringify(<<>>)]
    /\ UNCHANGED <<registry, planets, proc, input, ctxHeaders>>
    /\ UNCHANGED <<dispatchVars, pageVars>>

KVListGet(p) ==
    /\ registry = "kv" /\ pc[p] = "get" /\ proc[p] = "list"
    /\ local' = [local EXCEPT ![p] = KVGetPlanets]
    /\ Finish(p, KVListResult(KVGetPlanets))
    /\ log' = [log EXCEPT ![p] = Append(@, "get")]
    /\ UNCHANGED <<registry, kv, planets, proc, input, ctxHeaders>>
    /\ UNCHANGED <<dispatchVars, pageVars>>

KVFindCall(p, in, h) ==
    /\ registry = "kv" /\ pc[p] = "idle"
    /\ proc' = [proc EXCEPT ![p] = "find"]
    /\ input' = [input EXCEPT ![p] = in]
    /\ ctxHeaders' = [ctxHeaders EXCEPT ![p] = h]
    /\ IF FindInputOk(in)
       THEN /\ pc' = [pc EXCEPT ![p] = "get"]
            /\ log' = [log EXCEPT ![p] = <<"validate", "handler">>]
            /\ UNCHANGED result
       ELSE /\ Finish(p, InputRejected)
            /\ log' = [log EXCEPT ![p] = <<"validate">>]
    /\ UNCHANGED <<registry, kv, planets, local>>
    /\ UNCHANGED <<dispatchVars, pageVars>>

KVFindGet(p) ==
    /\ registry = "kv" /\ pc[p] = "get" /\ proc[p] = "find"
    /\ local' = [local EXCEPT ![p] = KVGetPlanets]
    /\ Finish(p, KVFindResult(KVGetPlanets, FindInputParse(input[p])))
    /\ log' = [log EXCEPT ![p] = Append(@, "get")]
    /\ UNCHANGED <<registry, kv, planets, proc, input, ctxHeaders>>
    /\ UNCHANGED <<dispatchVars, pageVars>>

\* The middleware of createPlanet is declared before .input(): it runs first
\* and always calls next().
KVCreateCall(p, in, h) ==
    /\ registry = "kv" /\ pc[p] = "idle"
    /\ proc' = [proc EXCEPT ![p] = "create"]
    /\ input' = [input EXCEPT ![p] = in]
    /\ ctxHeaders' = [ctxHeaders EXCEPT ![p] = h]
    /\ IF AuthMiddleware(h) # "next"
       THEN /\ Finish(p, Fail(AuthMiddleware(h)))
            /\ log' = [log EXCEPT ![p] = <<"middleware">>]
       ELSE IF CreateInputOk(in)
       THEN /\ pc' = [pc EXCEPT ![p] = "get"]
            /\ log' = [log EXCEPT ![p] = <<"middleware", "validate", "handler">>]
            /\ UNCHANGED result
       ELSE /\ Finish(p, InputRejected)
            /\ log' = [log EXCEPT ![p] = <<"middleware", "validate">>]
    /\ UNCHANGED <<registry, kv, planets, local>>
    /\ UNCHANGED <<dispatchVars, pageVars>>

\* Variant: a create that finds no record stores an empty one before it
\* goes on to its write.
KVCreateGetInitialises(p) ==
    /\ registry = "kv" /\ pc[p] = "get" /\ proc[p] = "create"
    /\ local' = [local EXCEPT ![p] = KVGetPlanets]
    /\ pc' = [pc EXCEPT ![p] = "put"]
    /\ log' = [log EXCEPT ![p] = Append(@, "get")]
    /\ kv' = IF KVHas("planets") THEN kv ELSE [k \in {"planets"} |-> JSONStringify(<<>>)]
    /\ UNCHANGED <<registry, planets, proc, input, result, ctxHeaders>>
    /\ UNCHANGED <<dispatchVars, pageVars>>

\* const planets = (await KV.get(...)) || []; the handler then awaits KV.put.
KVCreateGet(p) ==
    /\ registry = "kv" /\ pc[p] = "get" /\ proc[p] = "create"
    /\ local' = [local EXCEPT ![p] = KVGetPlanets]
    /\ pc' = [pc EXCEPT ![p] = "put"]
    /\ log' = [log EXCEPT ![p] = Append(@, "get")]
    /\ UNCHANGED <<registry, kv, planets, proc, input, result, ctxHeaders>>
    /\ UNCHANGED <<dispatchVars, pageVars>>

\* await KV.put("planets", JSON.stringify([...planets, newPlanet])); return newPlanet
KVCreatePut(p) ==
    /\ registry = "kv" /\ pc[p] = "put"
    /\ kv' = [k \in DOMAIN kv \cup {"planets"} |->
                IF k = "planets"
                THEN PutDocument(local[p], NewPlanet(local[p], CreateInputParse(input[p])))
                ELSE kv[k]]
    /\ Finish(p, Ok(NewPlanet(local[p], CreateInputParse(input[p]))))
    /\ log' = [log EXCEPT ![p] = Append(@, "put")]
    /\ UNCHANGED <<registry, planets, proc, input, local, ctxHeaders>>
    /\ UNCHANGED <<dispatchVars, pageVars>>

\* await context.KV.get(...) rejects: no handler catches it, the call fails.
KVGetFails(p) ==
    /\ registry = "kv" /\ pc[p] = "get"
    /\ Finish(p, StorageFailed)
    /\ log' = [log EXCEPT ![p] = Append(@, "get")]
    /\ UNCHANGED <<registry, kv, planets, proc, input, local, ctxHeaders>>
    /\ UNCHANGED <<dispatchVars, pageVars>>

\* await context.KV.put(...) rejects: nothing is stored, the call fails.
KVPutFails(p) ==
    /\ registry = "kv" /\ pc[p] = "put"
    /\ Finish(p, StorageFailed)
    /\ log' = [log EXCEPT ![p] = Append(@, "put")]
    /\ UNCHANGED <<registry, kv, planets, proc, input, local, ctxHeaders>>
    /\ UNCHANGED <<dispatchVars, pageVars>>

-----------------------------------------------------------------------------
(* Invocations of the in-memory router.  Its handlers have no await: each  *)
(* runs to completion in one step.                                         *)

MemListCall(p, in, h) ==
    /\ registry = "memory" /\ pc[p] = "idle"
    /\ proc' = [proc EXCEPT ![p] = "list"]
    /\ input' = [input EXCEPT ![p] = in]
    /\ ctxHeaders' = [ctxHeaders EXCEPT ![p] = h]
    /\ IF ListInputOk(in)
       THEN /\ Finish(p, MemListResult(planets))
            /\ log' = [log EXCEPT ![p] = <<"validate", "handler">>]
       ELSE /\ Finish(p, InputRejected)
            /\ log' = [log EXCEPT ![p] = <<"validate">>]
    /\ UNCHANGED <<registry, kv, planets, local>>
    /\ UNCHANGED <<dispatchVars, pageVars>>

MemFindCall(p, in, h) ==
    /\ registry = "memory" /\ pc[p] = "idle"
    /\ proc' = [proc EXCEPT ![p] = "find"]
    /\ input' = [input EXCEPT ![p] = in]
    /\ ctxHeaders' = [ctxHeaders EXCEPT ![p] = h]
    /\ IF FindInputOk(in)
       THEN /\ Finish(p, MemFindResult(planets, FindInputParse(in)))
            /\ log' = [log EXCEPT ![p] = <<"validate", "handler">>]
       ELSE /\ Finish(p, InputRejected)
            /\ log' = [log EXCEPT ![p] = <<"validate">>]
    /\ UNCHANGED <<registry, kv, planets, local>>
    /\ UNCHANGED <<dispatchVars, pageVars>>

\* Variant: the handler returns the new planet without pushing it.
MemCreateCallNoPush(p, in, h) ==
    /\ registry = "memory" /\ pc[p] = "idle"
    /\ proc' = [proc EXCEPT ![p] = "create"]
    /\ input' = [input EXCEPT ![p] = in]
    /\ ctxHeaders' = [ctxHeaders EXCEPT ![p] = h]
    /\ IF AuthMiddleware(h) # "next"
       THEN /\ Finish(p, Fail(AuthMiddleware(h)))
            /\ log' = [log EXCEPT ![p] = <<"middleware">>]
            /\ UNCHANGED planets
       ELSE IF CreateInputOk(in)
       THEN /\ UNCHANGED planets
            /\ Finish(p, Ok(NewPlanet(planets, CreateInputParse(in))))
            /\ log' = [log EXCEPT ![p] = <<"middleware", "validate", "handler">>]
       ELSE /\ Finish(p, InputRejected)
            /\ log' = [log EXCEPT ![p] = <<"middleware", "validate">>]
            /\ UNCHANGED planets
    /\ UNCHANGED <<registry, kv, local>>
    /\ UNCHANGED <<dispatchVars, pageVars>>

MemCreateCall(p, in, h) ==
    /\ registry = "memory" /\ pc[p] = "idle"
    /\ proc' = [proc EXCEPT ![p] = "create"]
    /\ input' = [input EXCEPT ![p] = in]
    /\ ctxHeaders' = [ctxHeaders EXCEPT ![p] = h]
    /\ IF AuthMiddleware(h) # "next"
       THEN /\ Finish(p, Fail(AuthMiddleware(h)))
            /\ log' = [log EXCEPT ![p] = <<"middleware">>]
            /\ UNCHANGED planets
       ELSE IF CreateInputOk(in)
       THEN /\ planets' = Append(planets, NewPlanet(planets, CreateInputParse(in)))
            /\ Finish(p, Ok(NewPlanet(planets, CreateInputParse(in))))
            /\ log' = [log EXCEPT ![p] = <<"middleware", "validate", "handler">>]
       ELSE /\ Finish(p, InputRejected)
            /\ log' = [log EXCEPT ![p] = <<"middleware", "validate">>]
            /\ UNCHANGED planets
    /\ UNCHANGED <<registry, kv, local>>
    /\ UNCHANGED <<dispatchVars, pageVars>>

-----------------------------------------------------------------------------

\* const planets = [{ id: 1, name: "name" }, { id: 2, name: "name2" }]
SeedPlanets == <<[id |-> 1, name |-> "name"], [id |-> 2, name |-> "name2"]>>

\* "planets" was never written, or holds an empty array.
InitialNamespaces == {[k \in {} |-> <<>>], [k \in {"planets"} |-> <<>>]}

ProcInit ==
    /\ registry \in {"kv", "memory"}
    /\ kv \in InitialNamespaces
    /\ registry = "memory" => kv = [k \in {} |-> <<>>]
    /\ planets = SeedPlanets
    /\ pc = [p \in Reqs |-> "idle"]
    /\ proc = [p \in Reqs |-> "none"]
    /\ input = [p \in Reqs |-> EmptyObject]
    /\ local = [p \in Reqs |-> <<>>]
    /\ result = [p \in Reqs |-> Pending]
    /\ log = [p \in Reqs |-> <<>>]
    /\ ctxHeaders = [p \in Reqs |-> NoAuthorization]

ProcNext ==
    \E p \in Reqs :
        \/ \E in \in ListInputs : KVListCall(p, in, NoAuthorization)
        \/ KVListGet(p)
        \/ \E in \in FindInputs : KVFindCall(p, in, NoAuthorization)
        \/ KVFindGet(p)
        \/ \E in \in CreateInputs : KVCreateCall(p, in, NoAuthorization)
        \/ KVCreateGet(p)
        \/ KVCreatePut(p)
        \/ \E in \in ListInputs : MemListCall(p, in, NoAuthorization)
        \/ \E in \in FindInputs : MemFindCall(p, in, NoAuthorization)
        \/ \E in \in CreateInputs : MemCreateCall(p, in, NoAuthorization)

-----------------------------------------------------------------------------
(* The dispatch of server.ts.  Hono runs the handlers registered for a     *)
(* path in the order of their registration; a handler that returns a       *)
(* Response ends the chain, one that awaits next() hands over to the next  *)
(* handler registered for the path.                                        *)

\* No request: the value of globalThis.$orpcClient before any page request.
NoRequest == 0

\* The module of the orpc client has not been evaluated yet.
Unloaded == -1

\* export const router = { planet: { list, find, create } }
RouterPaths == {<<"planet", "list">>, <<"planet", "find">>, <<"planet", "create">>}

\* The paths requests come with: "/", "/about", and paths under /rpc and /api
\* that name a procedure or nothing.
Paths ==
    { <<>>, <<"about">>,
      <<"rpc", "planet", "list">>, <<"rpc", "nope">>,
      <<"api", "planet", "list">>, <<"api", "nope">> }

HeaderValues == {"token-a", "token-b"}

\* Hono's match of "/<prefix>/*"
Under(pth, prefix) == Len(pth) >= 1 /\ pth[1] = prefix

\* The matched flag of handler.handle(request, { prefix }): the rest of the
\* path names a procedure of the router.
Matched(pth, prefix) == Under(pth, prefix) /\ Tail(pth) \in RouterPaths

\* The page route with the loader: the index route.
HasLoader(pth) == pth = <<>>

\* A procedure invocation made for request r by stage via, with the context
\* built from request c.
Invocation(r, via, c) == [req |-> r, via |-> via, ctx |-> c, headers |-> headers[c]]

\* Variant: the global handle is assigned by the first page request only.
EnterRenderAssignOnce(r) ==
    /\ globalClient' = IF globalClient = NoRequest THEN r ELSE globalClient
    /\ hpc' = [hpc EXCEPT ![r] = "render"]
    /\ trace' = [trace EXCEPT ![r] = Append(@, "render")]

\* app.all("*") up to its await: the global handle is reassigned, then
\* requestHandler is called.
EnterRender(r) ==
    /\ globalClient' = r
    /\ hpc' = [hpc EXCEPT ![r] = "render"]
    /\ trace' = [trace EXCEPT ![r] = Append(@, "render")]

\* Variant: the handler goes on to next() after a match as well.
RpcStageNoReturn(r) ==
    /\ hpc[r] = "rpc"
    /\ IF Matched(path[r], "rpc")
       THEN /\ invocations' = invocations \cup {Invocation(r, "rpc", r)}
            /\ responses' = [responses EXCEPT ![r] = Append(@, "rpc")]
       ELSE UNCHANGED <<invocations, responses>>
    /\ EnterRender(r)
    /\ UNCHANGED <<path, headers, moduleClient>>
    /\ UNCHANGED <<procVars, pageVars>>

\* app.use("/rpc/*"): handler.handle resolved; the response when matched,
\* else await next().
RpcStage(r) ==
    /\ hpc[r] = "rpc"
    /\ IF Matched(path[r], "rpc")
       THEN /\ invocations' = invocations \cup {Invocation(r, "rpc", r)}
            /\ responses' = [responses EXCEPT ![r] = Append(@, "rpc")]
            /\ hpc' = [hpc EXCEPT ![r] = "done"]
            /\ UNCHANGED <<trace, globalClient>>
       ELSE /\ EnterRender(r)
            /\ UNCHANGED <<invocations, responses>>
    /\ UNCHANGED <<path, headers, moduleClient>>
    /\ UNCHANGED <<procVars, pageVars>>

\* Variant: an unmatched request is not handed on.
ApiStageNoNext(r) ==
    /\ hpc[r] = "api"
    /\ IF Matched(path[r], "api")
       THEN /\ invocations' = invocations \cup {Invocation(r, "api", r)}
            /\ responses' = [responses EXCEPT ![r] = Append(@, "api")]
       ELSE UNCHANGED <<invocations, responses>>
    /\ hpc' = [hpc EXCEPT ![r] = "done"]
    /\ UNCHANGED <<trace, globalClient, path, headers, moduleClient>>
    /\ UNCHANGED <<procVars, pageVars>>

\* app.use("/api/*"): the same with openApiHandler.
ApiStage(r) ==
    /\ hpc[r] = "api"
    /\ IF Matched(path[r], "api")
       THEN /\ invocations' = invocations \cup {Invocation(r, "api", r)}
            /\ responses' = [responses EXCEPT ![r] = Append(@, "api")]
            /\ hpc' = [hpc EXCEPT ![r] = "done"]
            /\ UNCHANGED <<trace, globalClient>>
       ELSE /\ EnterRender(r)
            /\ UNCHANGED <<invocations, responses>>
    /\ UNCHANGED <<path, headers, moduleClient>>
    /\ UNCHANGED <<procVars, pageVars>>

\* A request arrives and Hono enters the first handler registered for its path.
Arrive(r, pth, h) ==
    /\ hpc[r] = "new"
    /\ path' = [path EXCEPT ![r] = pth]
    /\ headers' = [headers EXCEPT ![r] = h]
    /\ IF Under(pth, "rpc")
       THEN /\ hpc' = [hpc EXCEPT ![r] = "rpc"]
            /\ trace' = [trace EXCEPT ![r] = <<"rpc">>]
            /\ UNCHANGED globalClient
       ELSE IF Under(pth, "api")
       THEN /\ hpc' = [hpc EXCEPT ![r] = "api"]
            /\ trace' = [trace EXCEPT ![r] = <<"api">>]
            /\ UNCHANGED globalClient
       ELSE EnterRender(r)
    /\ UNCHANGED <<responses, moduleClient, invocations>>
    /\ UNCHANGED <<procVars, pageVars>>

\* The first requestHandler call imports the server build; the orpc module is
\* evaluated once: export const client = getORPCClient(), on the server
\* globalThis.$orpcClient as it is at that moment.
LoadServerBuild ==
    /\ moduleClient = Unloaded
    /\ \E r \in Https : hpc[r] = "render"
    /\ moduleClient' = globalClient
    /\ UNCHANGED <<hpc, path, headers, trace, responses, globalClient, invocations>>
    /\ UNCHANGED <<procVars, pageVars>>

\* requestHandler resolved: the loader of the index route prefetched
\* planet.list through the module's client, and the page is the response.
Render(r) ==
    /\ hpc[r] = "render"
    /\ moduleClient # Unloaded
    /\ invocations' =
          IF HasLoader(path[r])
          THEN invocations \cup {Invocation(r, "render", moduleClient)}
          ELSE invocations
    /\ responses' = [responses EXCEPT ![r] = Append(@, "render")]
    /\ hpc' = [hpc EXCEPT ![r] = "done"]
    /\ UNCHANGED <<path, headers, trace, globalClient, moduleClient>>
    /\ UNCHANGED <<procVars, pageVars>>

DispatchInit ==
    /\ hpc = [r \in Https |-> "new"]
    /\ path = [r \in Https |-> <<>>]
    /\ headers = [r \in Https |-> "token-a"]
    /\ trace = [r \in Https |-> <<>>]
    /\ responses = [r \in Https |-> <<>>]
    /\ globalClient = NoRequest
    /\ moduleClient = Unloaded
    /\ invocations = {}

DispatchNext ==
    \/ \E r \in Https, pth \in Paths, h \in HeaderValues : Arrive(r, pth, h)
    \/ \E r \in Https : RpcStage(r)
    \/ \E r \in Https : ApiStage(r)
    \/ LoadServerBuild
    \/ \E r \in Https : Render(r)

-----------------------------------------------------------------------------
(* A visit of the index page: the loader's prefetch on the server, the     *)
(* dehydrated cache in the page, the browser's cache and the Home          *)
(* component's query, and the route's ErrorBoundary.                       *)

\* A query cache with no entry.
NoQueries == [k \in {} |-> <<>>]

\* Nothing displayed yet.
Blank == [view |-> "none"]

\* No error was raised.
NoError == [isError |-> FALSE, raisedBy |-> "nothing"]

\* What a route may throw: Error instances with a message, and a value that
\* is no Error (a thrown Response or string).
Errors ==
    { [isError |-> TRUE, message |-> "Planet not found"],
      [isError |-> TRUE, message |-> "Internal server error"],
      [isError |-> FALSE, raisedBy |-> "throw"] }

\* Variant: the test of the environment is the wrong way round.
GetORPCClientInverted(env) ==
    IF env # "server"
    THEN [kind |-> "in-process"]
    ELSE [kind |-> "wire", url |-> "/rpc", batch |-> TRUE]

\* getORPCClient(): without a window the router client of
\* globalThis.$orpcClient, else an RPCLink to <origin>/rpc with the
\* BatchLinkPlugin.
GetORPCClient(env) ==
    IF env = "server"
    THEN [kind |-> "in-process"]
    ELSE [kind |-> "wire", url |-> "/rpc", batch |-> TRUE]

\* orpc.planet.list.queryOptions({ input }): the identity of the query.
QueryKey(in) == [path |-> <<"planet", "list">>, input |-> in]

\* The input of the loader's prefetchQuery.
LoaderQueryInput == EmptyObject

\* Variant: the component asks for a page of ten.
HomeQueryInputLimited == [limit |-> Num(10)]

\* The input of the useQuery of Home.
HomeQueryInput == EmptyObject

\* A procedure call issued for page visit g from env.
Call(g, env, in, phase) ==
    [page |-> g, env |-> env, transport |-> GetORPCClient(env),
     proc |-> <<"planet", "list">>, input |-> in, phase |-> phase]

\* dehydrate(queryClient): the queries that succeeded, serialised.
Dehydrate(cache) == [k \in DOMAIN cache |-> JSONStringify(cache[k])]

\* The browser reads the embedded state into its own query cache.
Hydrate(state) == [k \in DOMAIN state |-> JSONParse(state[k])]

\* The cache of the loader's query client after prefetchQuery settled with r:
\* a success is stored under the query's key, a failure is not thrown.
Prefetched(in, r) ==
    IF r.status = "ok" THEN [k \in {QueryKey(in)} |-> r.value] ELSE NoQueries

\* Variant: the details line is the fixed text for every error.
ErrorBoundaryFixedDetails(error) ==
    [view |-> "error", message |-> "Something went wrong",
     details |-> "An error occurred while loading the planets.",
     action |-> "reload"]

\* ErrorBoundary({ error }): the heading, the details line and the button
\* that reloads the window.
ErrorBoundary(error) ==
    [view |-> "error", message |-> "Something went wrong",
     details |-> IF error.isError THEN error.message
                 ELSE "An error occurred while loading the planets.",
     action |-> "reload"]

\* Home: the list of the planets of the query, none while it has no data.
Home(cache) ==
    IF QueryKey(HomeQueryInput) \in DOMAIN cache
    THEN [view |-> "planets", data |-> cache[QueryKey(HomeQueryInput)]]
    ELSE [view |-> "planets", data |-> <<>>]

\* The query client of the browser takes data it was hydrated with as
\* fresh: a query that has data under its key does not fetch on mount.
CachedIsFresh(cache, key) == key \in DOMAIN cache

\* app.all("*") for the index page: requestHandler runs the loader, whose
\* prefetchQuery calls planet.list through the module's client, up to the
\* await of the read.
PageRequest(g) ==
    /\ ppc[g] = "new"
    /\ ppc' = [ppc EXCEPT ![g] = "loader"]
    /\ calls' = calls \cup {Call(g, "server", LoaderQueryInput, "loader")}
    /\ UNCHANGED <<prefetch, snapshot, clientCache, shown, raised>>
    /\ UNCHANGED <<procVars, dispatchVars>>

\* The read resolved: list returned, prefetchQuery settled, the loader
\* returned the dehydrated state and the page went out with it.
LoaderPrefetched(g) ==
    /\ ppc[g] = "loader"
    /\ prefetch' = [prefetch EXCEPT ![g] =
                        IF ListOf(Record).status = "ok" THEN "ok" ELSE "failed"]
    /\ snapshot' = [snapshot EXCEPT ![g] =
                        Dehydrate(Prefetched(LoaderQueryInput, ListOf(Record)))]
    /\ ppc' = [ppc EXCEPT ![g] = "sent"]
    /\ UNCHANGED <<clientCache, shown, raised, calls>>
    /\ UNCHANGED <<procVars, dispatchVars>>

\* The read was rejected: list failed, prefetchQuery settled all the same,
\* the loader returned a dehydrated state without the query and the page
\* went out.
LoaderPrefetchFails(g) ==
    /\ ppc[g] = "loader" /\ registry = "kv"
    /\ prefetch' = [prefetch EXCEPT ![g] = "failed"]
    /\ snapshot' = [snapshot EXCEPT ![g] =
                        Dehydrate(Prefetched(LoaderQueryInput, StorageFailed))]
    /\ ppc' = [ppc EXCEPT ![g] = "sent"]
    /\ UNCHANGED <<clientCache, shown, raised, calls>>
    /\ UNCHANGED <<procVars, dispatchVars>>

\* The browser loaded the page: the embedded state is put into its cache
\* before any component asks for data.
HydratePage(g) ==
    /\ ppc[g] = "sent"
    /\ clientCache' = [clientCache EXCEPT ![g] = Hydrate(snapshot[g])]
    /\ ppc' = [ppc EXCEPT ![g] = "hydrated"]
    /\ UNCHANGED <<prefetch, snapshot, shown, raised, calls>>
    /\ UNCHANGED <<procVars, dispatchVars>>

\* The first render of Home in the browser: useQuery shows the cached data
\* of its key, and fetches over the wire when the cache has none.
Mount(g) ==
    /\ ppc[g] = "hydrated"
    /\ shown' = [shown EXCEPT ![g] = Home(clientCache[g])]
    /\ IF CachedIsFresh(clientCache[g], QueryKey(HomeQueryInput))
       THEN /\ ppc' = [ppc EXCEPT ![g] = "mounted"]
            /\ UNCHANGED calls
       ELSE /\ ppc' = [ppc EXCEPT ![g] = "fetching"]
            /\ calls' = calls \cup {Call(g, "browser", HomeQueryInput, "mount")}
    /\ UNCHANGED <<prefetch, snapshot, clientCache, raised>>
    /\ UNCHANGED <<procVars, dispatchVars>>

\* A later interaction (focus, reconnect, invalidation) refetches the query.
Interact(g) ==
    /\ ppc[g] = "mounted"
    /\ ppc' = [ppc EXCEPT ![g] = "fetching"]
    /\ calls' = calls \cup {Call(g, "browser", HomeQueryInput, "interaction")}
    /\ UNCHANGED <<prefetch, snapshot, clientCache, shown, raised>>
    /\ UNCHANGED <<procVars, dispatchVars>>

\* The wire call of the browser came back: a success replaces the data of
\* the query, a failure leaves what the query had.
WireListDone(g, failed) ==
    /\ ppc[g] = "fetching"
    /\ failed => registry = "kv"
    /\ clientCache' = [clientCache EXCEPT ![g] =
            IF ~failed /\ ListOf(Record).status = "ok"
            THEN [k \in DOMAIN @ \cup {QueryKey(HomeQueryInput)} |->
                    IF k = QueryKey(HomeQueryInput)
                    THEN JSONParse(JSONStringify(ListOf(Record).value)) ELSE @[k]]
            ELSE @]
    /\ shown' = [shown EXCEPT ![g] = Home(clientCache'[g])]
    /\ ppc' = [ppc EXCEPT ![g] = "mounted"]
    /\ UNCHANGED <<prefetch, snapshot, raised, calls>>
    /\ UNCHANGED <<procVars, dispatchVars>>

\* The route threw e while loading or rendering: its ErrorBoundary is shown.
RouteError(g, e) ==
    /\ ppc[g] \in {"loader", "hydrated", "mounted"}
    /\ raised' = [raised EXCEPT ![g] = e]
    /\ shown' = [shown EXCEPT ![g] = ErrorBoundary(e)]
    /\ ppc' = [ppc EXCEPT ![g] = "error"]
    /\ UNCHANGED <<prefetch, snapshot, clientCache, calls>>
    /\ UNCHANGED <<procVars, dispatchVars>>

PageInit ==
    /\ ppc = [g \in Pages |-> "new"]
    /\ prefetch = [g \in Pages |-> "none"]
    /\ snapshot = [g \in Pages |-> NoQueries]
    /\ clientCache = [g \in Pages |-> NoQueries]
    /\ shown = [g \in Pages |-> Blank]
    /\ raised = [g \in Pages |-> NoError]
    /\ calls = {}

\* Page visits, next to one create that another client may send meanwhile.
PageNext ==
    \/ \E g \in Pages : PageRequest(g)
    \/ \E g \in Pages : LoaderPrefetched(g)
    \/ \E g \in Pages : LoaderPrefetchFails(g)
    \/ \E g \in Pages : HydratePage(g)
    \/ \E g \in Pages : Mount(g)
    \/ \E g \in Pages : Interact(g)
    \/ \E g \in Pages, failed \in BOOLEAN : WireListDone(g, failed)
    \/ \E g \in Pages, e \in Errors : RouteError(g, e)
    \/ \E in \in CreateInputs : KVCreateCall(1, in, NoAuthorization)
    \/ KVCreateGet(1)
    \/ KVCreatePut(1)
    \/ \E in \in CreateInputs : MemCreateCall(1, in, NoAuthorization)

Init == ProcInit /\ DispatchInit /\ PageInit

\* Invocations of the procedures of one registry.
Spec == Init /\ [][ProcNext]_vars

\* HTTP requests through the route handlers of server.ts.
SpecDispatch == Init /\ [][DispatchNext]_vars

\* Invocations with the caller's headers in the context, over a KV store
\* whose reads and writes may fail.
CallsNext ==
    \E p \in Calls :
        \/ \E in \in ListInputs, h \in CallHeaders : KVListCall(p, in, h)
        \/ KVListGet(p)
        \/ \E in \in FindInputs, h \in CallHeaders : KVFindCall(p, in, h)
        \/ KVFindGet(p)
        \/ \E in \in CreateInputs, h \in CallHeaders : KVCreateCall(p, in, h)
        \/ KVCreateGet(p)
        \/ KVCreatePut(p)
        \/ KVGetFails(p)
        \/ KVPutFails(p)
        \/ \E in \in ListInputs, h \in CallHeaders : MemListCall(p, in, h)
        \/ \E in \in FindInputs, h \in CallHeaders : MemFindCall(p, in, h)
        \/ \E in \in CreateInputs, h \in CallHeaders : MemCreateCall(p, in, h)

SpecCalls == Init /\ [][CallsNext]_vars

\* Documents under "planets" that this version of create did not write (an
\* earlier deployment, the dashboard, wrangler kv): an id below 1, an entity
\* without a name, an entity without an id, and a well-formed document.
DriftedDocuments ==
    { JSONStringify(<<[id |-> 0, name |-> "A"]>>),
      JSONStringify(<<[id |-> 1, name |-> "A"], [id |-> 2]>>),
      JSONStringify(<<[name |-> "A"], [id |-> 2, name |-> "B"]>>),
      JSONStringify(<<[id |-> 1, name |-> "A", description |-> "d"]>>) }

DriftInit ==
    /\ registry = "kv"
    /\ kv \in {[k \in {"planets"} |-> doc] : doc \in DriftedDocuments}
    /\ planets = SeedPlanets
    /\ pc = [p \in Reqs |-> "idle"]
    /\ proc = [p \in Reqs |-> "none"]
    /\ input = [p \in Reqs |-> EmptyObject]
    /\ local = [p \in Reqs |-> <<>>]
    /\ result = [p \in Reqs |-> Pending]
    /\ log = [p \in Reqs |-> <<>>]
    /\ ctxHeaders = [p \in Reqs |-> NoAuthorization]
    /\ DispatchInit /\ PageInit

DriftNext ==
    \E p \in Calls :
        \/ \E in \in ListInputs, h \in CallHeaders : KVListCall(p, in, h)
        \/ KVListGet(p)
        \/ \E in \in FindInputs, h \in CallHeaders : KVFindCall(p, in, h)
        \/ KVFindGet(p)
        \/ \E in \in CreateInputs, h \in CallHeaders : KVCreateCall(p, in, h)
        \/ KVCreateGet(p)
        \/ KVCreatePut(p)
        \/ KVGetFails(p)
        \/ KVPutFails(p)

\* Invocations of the KV router over a record that drifted from the schema.
SpecDrift == DriftInit /\ [][DriftNext]_vars

\* Visits of the index page.
SpecPage == Init /\ [][PageNext]_vars

-----------------------------------------------------------------------------
(* Steps of invocations.                                                   *)

\* This step ends invocation p of procedure name.
Completes(p, name) == pc[p] # "done" /\ pc'[p] = "done" /\ proc'[p] = name

\* This step ends a create of p that succeeded.
CreateSucceeds(p) == Completes(p, "create") /\ result'[p].status = "ok"

\* No write came between the read and the write of p's create.
Undisturbed(p) == registry = "kv" => local[p] = KVGetPlanets

DoneOk(p, name) == pc[p] = "done" /\ proc[p] = name /\ result[p].status = "ok"

-----------------------------------------------------------------------------
(* Claims.                                                                 *)

\* C1: find({id: X}) returns the entity of the record whose id is X when one
\* exists and otherwise fails with NOT_FOUND, never with an undefined
\* success; in the KV registry and in the in-memory registry.
C1_FindContract ==
    [][\A p \in Reqs :
        (Completes(p, "find") /\ result'[p].status # "input_invalid") =>
            LET X == FindInputParse(input'[p]).id
                hits == {i \in 1..Len(Record) : Record[i].id = X}
            IN  IF hits # {}
                THEN /\ result'[p].status = "ok"
                     /\ "value" \in DOMAIN result'[p]
                     /\ \E i \in hits : result'[p].value = Record[i]
                ELSE result'[p] = Fail("NOT_FOUND")]_vars

\* C1, the KV registry alone: the same contract, restricted to registry = "kv".
C1_FindContractKV ==
    [][\A p \in Reqs :
        (registry = "kv" /\ Completes(p, "find") /\ result'[p].status # "input_invalid") =>
            LET X == FindInputParse(input'[p]).id
                hits == {i \in 1..Len(Record) : Record[i].id = X}
            IN  IF hits # {}
                THEN /\ result'[p].status = "ok"
                     /\ "value" \in DOMAIN result'[p]
                     /\ \E i \in hits : result'[p].value = Record[i]
                ELSE result'[p] = Fail("NOT_FOUND")]_vars

\* The input e of a create with the assigned id i added.
WithId(e, i) == [k \in DOMAIN e \cup {"id"} |-> IF k = "id" THEN i ELSE e[k]]

\* C2: after create(e) succeeds with id i, and before any other write, list()
\* contains e with id i added, every field of e preserved (description
\* included), and find({id: i}) returns that entity.
C2_CreateRoundTrip ==
    [][\A p \in Reqs :
        CreateSucceeds(p) =>
            LET e == CreateInputParse(input'[p])
                i == result'[p].value.id
            IN  /\ ListOf(Record').status = "ok"
                /\ \E k \in 1..Len(ListOf(Record').value) :
                        ListOf(Record').value[k] = WithId(e, i)
                /\ FindOf(Record', i) = Ok(WithId(e, i))]_vars

\* C2 for the name alone: the round trip of the fields the handler copies.
C2_CreateRoundTripName ==
    [][\A p \in Reqs :
        CreateSucceeds(p) =>
            LET e == [name |-> CreateInputParse(input'[p]).name]
                i == result'[p].value.id
            IN  /\ ListOf(Record').status = "ok"
                /\ \E k \in 1..Len(ListOf(Record').value) :
                        ListOf(Record').value[k] = WithId(e, i)
                /\ FindOf(Record', i) = Ok(WithId(e, i))]_vars

\* C3: a create that runs without interference on a record R of length n
\* assigns id n + 1, returns the new entity, and leaves the record equal to
\* R with exactly that entity appended.
C3_CreateAppends ==
    [][\A p \in Reqs :
        (CreateSucceeds(p) /\ Undisturbed(p)) =>
            LET new == [id |-> Len(Record) + 1, name |-> input'[p].name.s]
            IN  /\ result'[p] = Ok(new)
                /\ Record' = Append(Record, new)]_vars

\* C3 witness: the record [{id:1,name:A}] became [{id:1,name:A},{id:2,name:B}]
\* by a create that returned {id:2,name:B}.
C3_Witness ==
    /\ registry = "kv"
    /\ Record = <<[id |-> 1, name |-> "A"], [id |-> 2, name |-> "B"]>>
    /\ \E p \in Reqs :
        /\ DoneOk(p, "create")
        /\ local[p] = <<[id |-> 1, name |-> "A"]>>
        /\ result[p].value = [id |-> 2, name |-> "B"]

\* The creates that have succeeded so far.
DoneCreates == {p \in Reqs : DoneOk(p, "create")}

\* C5: two creates of the KV registry that read the same record both succeed
\* with the same id, and the record then holds fewer entities than creates
\* succeeded: one write replaced the other.
C5_LostUpdate ==
    registry = "kv" =>
        \A p, q \in DoneCreates :
            (p # q /\ local[p] = local[q]) =>
                /\ result[p].value.id = result[q].value.id
                /\ result[p].value.id = Len(local[p]) + 1
                /\ Len(Record) < Cardinality(DoneCreates)

\* C5 witness: two overlapping creates read the absent record, both returned
\* id 1, and the record holds one entity.
C5_Witness ==
    /\ registry = "kv"
    /\ \E p, q \in DoneCreates :
        /\ p # q
        /\ local[p] = <<>> /\ local[q] = <<>>
        /\ result[p].value = [id |-> 1, name |-> "A"]
        /\ result[q].value = [id |-> 1, name |-> "B"]
        /\ Len(Record) = 1

\* C6: no two entities of the stored record have the same id, in any
\* interleaving of the reads and writes of any number of creates.
C6_UniqueIds ==
    \A i, j \in 1..Len(Record) : i # j => Record[i].id # Record[j].id

\* C6 witness: three creates of the KV registry succeeded, one of them
\* overwritten, and the record holds two entities.
C6_Witness ==
    /\ registry = "kv"
    /\ Cardinality(DoneCreates) = MaxReqs
    /\ Len(Record) = 2

\* C10: a list() returns the record as stored and leaves it as it is, and the
\* record changes only in a step that ends a successful create: list calls
\* with no create between them return identical sequences.
C10_ListIdempotent ==
    [][/\ \A p \in Reqs :
            (Completes(p, "list") /\ result'[p].status # "input_invalid") =>
                /\ result'[p] = Ok(Record)
                /\ Record' = Record
                /\ ListOf(Record') = result'[p]
       /\ Record' # Record => \E p \in Reqs : CreateSucceeds(p)]_vars

\* C10 witness: two list calls ended with the same non-empty sequence, the
\* record.
C10_Witness ==
    \E p, q \in Reqs :
        /\ p # q
        /\ DoneOk(p, "list") /\ DoneOk(q, "list")
        /\ result[p] = result[q]
        /\ result[p].value = Record
        /\ Len(Record) > 0 /\ registry = "kv"

-----------------------------------------------------------------------------
(* Claims about the dispatch.                                              *)

\* The prefix stage request r belongs to, "render" for a path under neither.
FirstStage(r) ==
    IF Under(path[r], "rpc") THEN "rpc" ELSE IF Under(path[r], "api") THEN "api" ELSE "render"

Entered(r, stage) == \E i \in 1..Len(trace[r]) : trace[r][i] = stage

\* C7: every request is answered by exactly one stage, chosen in the order
\* RPC prefix, OpenAPI prefix, render fallback.  A request the RPC handler
\* matched is answered by it and enters neither other stage; one the OpenAPI
\* handler matched does not enter the render pipeline; a request under
\* neither prefix is never given to the RPC or the OpenAPI handler.
C7_DispatchExclusive ==
    \A r \in Https :
        hpc[r] # "new" =>
            /\ Len(responses[r]) <= 1
            /\ hpc[r] = "done" => Len(responses[r]) = 1
            /\ trace[r][1] = FirstStage(r)
            /\ Matched(path[r], "rpc") =>
                /\ trace[r] = <<"rpc">>
                /\ hpc[r] = "done" => responses[r] = <<"rpc">>
                /\ \A inv \in invocations : inv.req = r => inv.via = "rpc"
            /\ Matched(path[r], "api") =>
                /\ ~Entered(r, "render")
                /\ hpc[r] = "done" => responses[r] = <<"api">>
            /\ FirstStage(r) = "render" => ~Entered(r, "rpc") /\ ~Entered(r, "api")
            /\ ~(Entered(r, "rpc") /\ Entered(r, "api"))

\* C7 witness: one request was answered by the RPC handler alone and another
\* by the OpenAPI handler alone.
C7_Witness ==
    \E r, q \in Https :
        /\ hpc[r] = "done" /\ path[r] = <<"rpc", "planet", "list">>
        /\ trace[r] = <<"rpc">> /\ responses[r] = <<"rpc">>
        /\ hpc[q] = "done" /\ path[q] = <<"api", "planet", "list">>
        /\ trace[q] = <<"api">> /\ responses[q] = <<"api">>

\* C8: a request under the RPC or the OpenAPI prefix reaches a later stage
\* exactly when the prefix handler reported matched = false; the later stage
\* is entered only once the prefix handler has finished, and the render
\* fallback then produces the response.
C8_FallThrough ==
    \A r \in Https :
        (hpc[r] # "new" /\ FirstStage(r) # "render") =>
            /\ hpc[r] = FirstStage(r) => trace[r] = <<FirstStage(r)>>
            /\ hpc[r] # FirstStage(r) =>
                (Entered(r, "render") <=> ~Matched(path[r], FirstStage(r)))
            /\ Entered(r, "render") => trace[r] = <<FirstStage(r), "render">>
            /\ (hpc[r] = "done" /\ Entered(r, "render")) => responses[r] = <<"render">>

\* C8 witness: a request under /rpc that names no procedure went on to the
\* render fallback, which answered it.
C8_Witness ==
    \E r \in Https :
        /\ hpc[r] = "done" /\ path[r] = <<"rpc", "nope">>
        /\ trace[r] = <<"rpc", "render">> /\ responses[r] = <<"render">>

\* C9: every procedure invocation made for a request, by the RPC transport,
\* the OpenAPI transport or the render pipeline, gets a context built from
\* that request's own headers, never those of another request.
C9_OwnContext ==
    \A inv \in invocations : inv.ctx = inv.req /\ inv.headers = headers[inv.req]

\* C9 for the two transports alone: the context of an invocation made by the
\* RPC or the OpenAPI handler is the request's own.
C9_TransportContext ==
    \A inv \in invocations :
        inv.via # "render" => (inv.ctx = inv.req /\ inv.headers = headers[inv.req])

-----------------------------------------------------------------------------
(* The input gate of the three procedures.                                 *)

InputValid(p) ==
    CASE proc[p] = "list" -> ListInputOk(input[p])
      [] proc[p] = "find" -> FindInputOk(input[p])
      [] proc[p] = "create" -> CreateInputOk(input[p])

Ran(p, stage) == \E i \in 1..Len(log[p]) : log[p][i] = stage

\* C4, without the name of the failure code: the handler of an invocation
\* runs exactly when its input passes the schema, and a rejected invocation
\* ends as an input failure without a storage read or write.
C4_HandlerGate ==
    \A p \in Reqs :
        pc[p] # "idle" =>
            /\ Ran(p, "handler") <=> InputValid(p)
            /\ ~InputValid(p) =>
                /\ pc[p] = "done" /\ result[p] = InputRejected
                /\ ~Ran(p, "get") /\ ~Ran(p, "put")

-----------------------------------------------------------------------------
\* Nothing was ever stored and no create was ever called.
NeverWritten ==
    /\ registry = "kv" => ~KVHas("planets")
    /\ registry = "memory" => planets = SeedPlanets
    /\ \A q \in Reqs : proc[q] # "create"

\* C11 as written: before any create, in either router, list({}) returns the
\* empty sequence.
C11_EmptyBeforeCreate ==
    \A p \in Reqs :
        (pc[p] = "done" /\ proc[p] = "list" /\ input[p] = EmptyObject /\ NeverWritten)
            => result[p] = Ok(<<>>)

\* C11, amended: a list({}) that reads an absent or empty record succeeds with
\* the empty sequence, which is what the KV router returns before any create;
\* the in-memory router returns its two seeded planets before any create.
C11_EmptyList ==
    [][\A p \in Reqs :
        (Completes(p, "list") /\ input'[p] = EmptyObject) =>
            /\ Record = <<>> => result'[p] = Ok(<<>>)
            /\ (registry = "kv" /\ NeverWritten) => result'[p] = Ok(<<>>)
            /\ (registry = "memory" /\ NeverWritten) => result'[p] = Ok(SeedPlanets)]_vars

\* C11 witness: list({}) of the KV router read the key that was never written
\* and returned the empty sequence, and the key is still absent.
C11_Witness ==
    \E p \in Reqs :
        /\ registry = "kv" /\ ~KVHas("planets")
        /\ DoneOk(p, "list") /\ input[p] = EmptyObject
        /\ log[p] = <<"validate", "handler", "get">>
        /\ result[p] = Ok(<<>>)

-----------------------------------------------------------------------------
\* The number of times stage occurs in the log of invocation p.
Times(p, stage) == Cardinality({i \in 1..Len(log[p]) : log[p][i] = stage})

\* The page of visit g went out to the browser.
Delivered(g) == ppc[g] \in {"sent", "hydrated", "mounted", "fetching"}

\* C13 as written: an invocation attempts each storage operation at most
\* once, an invocation whose storage operation failed has failed, and a page
\* visit whose prefetch failed is not answered with the page.
C13_FailWholeRequest ==
    /\ \A p \in Calls : Times(p, "get") <= 1 /\ Times(p, "put") <= 1
    /\ \A p \in Calls : result[p] = StorageFailed => pc[p] = "done"
    /\ \A g \in Pages : prefetch[g] = "failed" => ~Delivered(g)

\* C13 for the procedure invocations alone: each storage operation is tried
\* at most once, and a rejected read or write ends the invocation as failed,
\* with nothing attempted after it.
C13_NoRetry ==
    \A p \in Calls :
        /\ Times(p, "get") <= 1 /\ Times(p, "put") <= 1
        /\ result[p] = StorageFailed =>
              /\ pc[p] = "done"
              /\ log[p][Len(log[p])] \in {"get", "put"}

-----------------------------------------------------------------------------
\* The record the handler read holds an element that is no valid entity.
Malformed(arr) == \E i \in 1..Len(arr) : ~PlanetOk(arr[i])

\* C14: a list whose handler read a record with an element that is no valid
\* entity (id below 1, no id, no name) fails after the handler ran, on the
\* check of its result against the output schema and not as a rejection of
\* the caller's input; and a list that succeeds returns valid entities only.
C14_OutputValidated ==
    \A p \in Calls :
        (pc[p] = "done" /\ proc[p] = "list") =>
            /\ (Times(p, "handler") = 1 /\ result[p] # StorageFailed /\ Malformed(local[p]))
                  => /\ result[p] = OutputRejected
                     /\ result[p] # InputRejected
                     /\ ListInputOk(input[p])
            /\ result[p].status = "ok"
                  => \A i \in 1..Len(result[p].value) : PlanetOk(result[p].value[i])

\* C14 witness: the record holds an entity without a name, a list with a
\* valid input ended on the output check and a find of the same record
\* returned the stored entity of id 1.
C14_Witness ==
    \E p, q \in Calls :
        /\ pc[p] = "done" /\ proc[p] = "list" /\ input[p] = EmptyObject
        /\ local[p] = <<[id |-> 1, name |-> "A"], [id |-> 2]>>
        /\ result[p] = OutputRejected
        /\ DoneOk(q, "find") /\ result[q] = Ok([id |-> 1, name |-> "A"])

-----------------------------------------------------------------------------
\* C15: the middleware of create runs first and always calls through: a
\* create with a valid input goes on to validation and the handler whatever
\* the headers of its context are, a create that succeeds returns the entity
\* computed from the record it read and its input alone, and no invocation
\* of any procedure ends in UNAUTHORIZED.
C15_AuthNoOp ==
    [][\A p \in Calls :
        /\ (pc[p] = "idle" /\ pc'[p] # "idle" /\ proc'[p] = "create") =>
              /\ log'[p][1] = "middleware"
              /\ CreateInputOk(input'[p]) =>
                    log'[p] = <<"middleware", "validate", "handler">>
              /\ ~CreateInputOk(input'[p]) => result'[p] = InputRejected
        /\ CreateSucceeds(p) =>
              result'[p] = Ok(NewPlanet(IF registry = "kv" THEN local[p] ELSE planets,
                                        CreateInputParse(input'[p])))
        /\ result'[p] # Fail("UNAUTHORIZED")]_vars

\* C15 witness: two creates of the same input succeeded, one called without
\* an Authorization header and one with a bearer token.
C15_Witness ==
    \E p, q \in Calls :
        /\ DoneOk(p, "create") /\ DoneOk(q, "create")
        /\ input[p] = input[q]
        /\ ctxHeaders[p] = NoAuthorization
        /\ ctxHeaders[q] = "Bearer default-token"
        /\ log[p][1] = "middleware" /\ log[q][1] = "middleware"

-----------------------------------------------------------------------------
\* The identity (planet.list, {}).
ListAll == QueryKey(EmptyObject)

\* C16 as written: the loader calls planet.list with {} and returns a
\* snapshot that holds under (planet.list, {}) exactly what the list gave at
\* that step; the first render of Home after the snapshot was loaded shows
\* that data and sends nothing, and a wire request of the visit is sent by a
\* later interaction only.
C16_Handshake ==
    [][\A g \in Pages :
        /\ (ppc[g] = "loader" /\ ppc'[g] = "sent") =>
              /\ Call(g, "server", EmptyObject, "loader") \in calls
              /\ snapshot'[g] =
                    [k \in {ListAll} |-> JSONStringify(ListOf(Record).value)]
        /\ (ppc[g] = "hydrated" /\ ppc'[g] \notin {"hydrated", "error"}) =>
              /\ ppc'[g] = "mounted"
              /\ calls' = calls
              /\ ListAll \in DOMAIN snapshot[g]
              /\ shown'[g] = [view |-> "planets", data |-> JSONParse(snapshot[g][ListAll])]
        /\ \A c \in calls' \ calls :
              (c.page = g /\ c.env = "browser") => c.phase = "interaction"]_vars

\* C16 for the visits whose prefetch succeeded: the snapshot holds under
\* (planet.list, {}) exactly what the list gave and nothing else, the first
\* render shows that data and sends nothing, and a wire request of such a
\* visit is sent by a later interaction only.
C16_HandshakeOnSuccess ==
    [][\A g \in Pages :
        /\ (ppc[g] = "loader" /\ ppc'[g] = "sent" /\ prefetch'[g] = "ok") =>
              /\ Call(g, "server", EmptyObject, "loader") \in calls
              /\ snapshot'[g] =
                    [k \in {ListAll} |-> JSONStringify(ListOf(Record).value)]
        /\ (ppc[g] = "hydrated" /\ ppc'[g] \notin {"hydrated", "error"}
                /\ prefetch[g] = "ok") =>
              /\ ppc'[g] = "mounted"
              /\ calls' = calls
              /\ shown'[g] = [view |-> "planets", data |-> JSONParse(snapshot[g][ListAll])]
        /\ \A c \in calls' \ calls :
              (c.page = g /\ c.env = "browser" /\ prefetch[g] = "ok")
                  => c.phase = "interaction"]_vars

\* A visit of C16_HandshakeOnSuccess: the visit was prefetched, a create changed the record after
\* that, and the mounted page shows the planets of the snapshot, not those of
\* the record, with no call of the browser made.
C16_CachedVisit ==
    \E g \in Pages :
        /\ ppc[g] = "mounted" /\ prefetch[g] = "ok"
        /\ shown[g] = [view |-> "planets", data |-> JSONParse(snapshot[g][ListAll])]
        /\ Ok(shown[g].data) # ListOf(Record)
        /\ \A c \in calls : c.page = g => c.env = "server"

-----------------------------------------------------------------------------
\* C17: a call issued by a loader on the server goes through the in-process
\* router client, a call issued by the browser goes over the wire to /rpc
\* through the batching link, and no call takes the other way.
C17_TransportSelection ==
    \A c \in calls :
        /\ c.phase = "loader" <=> c.env = "server"
        /\ c.env = "server" => c.transport = [kind |-> "in-process"]
        /\ c.env = "browser" =>
              c.transport = [kind |-> "wire", url |-> "/rpc", batch |-> TRUE]

\* C17 witness: one visit whose loader called in-process and whose browser
\* called over the wire, on mount and on a later interaction.
C17_Witness ==
    \E g \in Pages :
        /\ \E c \in calls : c.page = g /\ c.env = "server" /\ c.transport.kind = "in-process"
        /\ \E c \in calls : c.page = g /\ c.phase = "mount" /\ c.transport.kind = "wire"
        /\ \E c \in calls : c.page = g /\ c.phase = "interaction" /\ c.transport.kind = "wire"

-----------------------------------------------------------------------------
\* C18 as written: whatever error was raised, the boundary shows one and the
\* same display.
C18_GenericDisplay ==
    \A g \in Pages :
        ppc[g] = "error" =>
            shown[g] = [view |-> "error", message |-> "Something went wrong",
                        details |-> "An error occurred while loading the planets.",
                        action |-> "reload"]

\* C18, amended: for every error the boundary shows the heading "Something
\* went wrong" and the reload button; the line below the heading is the
\* message of the error when the error is an Error, and the fixed text
\* otherwise.
C18_ErrorDisplay ==
    \A g \in Pages :
        ppc[g] = "error" =>
            /\ shown[g].view = "error"
            /\ shown[g].message = "Something went wrong"
            /\ shown[g].action = "reload"
            /\ raised[g].isError => shown[g].details = raised[g].message
            /\ ~raised[g].isError =>
                  shown[g].details = "An error occurred while loading the planets."

\* C18 witness: the route threw an Error with the message "Planet not found"
\* after the page was mounted, and the boundary shows that message.
C18_Witness ==
    \E g \in Pages :
        /\ ppc[g] = "error"
        /\ raised[g] = [isError |-> TRUE, message |-> "Planet not found"]
        /\ shown[g].details = "Planet not found"
        /\ shown[g].action = "reload"
        /\ \E c \in calls : c.page = g /\ c.phase = "interaction"

-----------------------------------------------------------------------------
\* Request r enters the page handler in this step.
EntersRender(r) == hpc[r] # "render" /\ hpc'[r] = "render"

\* C19: the global handle is bound to the page request that entered the page
\* handler last, so a request suspended in rendering reads the client of a
\* request that entered after it; the client of the orpc module is the
\* handle as it was when the module was loaded and never changes, and every
\* call made while rendering, for whatever request, gets that client's
\* headers and storage handle.
C19_GlobalHandleHazard ==
    [][/\ \A r \in Https : EntersRender(r) => globalClient' = r
       /\ (\A r \in Https : ~EntersRender(r)) => globalClient' = globalClient
       /\ moduleClient # Unloaded => moduleClient' = moduleClient
       /\ (moduleClient = Unloaded /\ moduleClient' # Unloaded)
             => moduleClient' = globalClient
       /\ \A i \in invocations' \ invocations :
             i.via = "render" =>
                 i.ctx = moduleClient /\ i.headers = headers[moduleClient]]_vars

\* C19 witness: a page request is suspended in rendering while the handle is
\* bound to a later request with other headers, and the loader of that later
\* request called planet.list with the client of the first.
C19_Witness ==
    \E r1, r2 \in Https :
        /\ r1 # r2 /\ headers[r1] # headers[r2]
        /\ hpc[r1] = "render" /\ globalClient = r2
        /\ moduleClient = r1
        /\ \E i \in invocations :
              i.via = "render" /\ i.req = r2 /\ i.ctx = r1 /\ i.headers = headers[r1]

-----------------------------------------------------------------------------
\* C20: no step of a list or of a find changes the stored record, whatever
\* the record and the input are and however the call ends; a list that reads
\* an absent record returns the empty sequence and the record stays absent.
C20_ReadsFrame ==
    [][\A p \in Calls :
        (pc'[p] # pc[p] /\ proc'[p] \in {"list", "find"}) =>
            /\ kv' = kv /\ DOMAIN kv' = DOMAIN kv
            /\ planets' = planets
            /\ (registry = "kv" /\ pc[p] = "get" /\ Completes(p, "list")
                    /\ ~KVHas("planets") /\ result'[p] # StorageFailed)
                  => result'[p] = Ok(<<>>) /\ "planets" \notin DOMAIN kv']_vars

\* C20 witness: a list read the absent record and returned the empty
\* sequence, a find of the same record failed, and the record is still
\* absent.
C20_Witness ==
    \E p, q \in Calls :
        /\ registry = "kv" /\ DOMAIN kv = {}
        /\ DoneOk(p, "list") /\ result[p] = Ok(<<>>) /\ Times(p, "get") = 1
        /\ pc[q] = "done" /\ proc[q] = "find" /\ result[q] = Fail("NOT_FOUND")

-----------------------------------------------------------------------------
\* The number of times stage occurs in the log l.
Count(l, stage) == Cardinality({i \in 1..Len(l) : l[i] = stage})

\* C21: no step of a create that does not end it in success changes the
\* stored record, and a create that failed (input rejected, read rejected,
\* write rejected) hands out no entity and no id; a create attempts at most
\* one write, and a create of the KV router that succeeds made exactly one
\* read and then exactly one write.
C21_FailedCreateFrame ==
    [][\A p \in Calls :
        (pc'[p] # pc[p] /\ proc'[p] = "create") =>
            /\ ~CreateSucceeds(p) =>
                  /\ kv' = kv /\ DOMAIN kv' = DOMAIN kv
                  /\ planets' = planets
            /\ (Completes(p, "create") /\ ~CreateSucceeds(p)) =>
                  /\ result'[p] \in {InputRejected, StorageFailed}
                  /\ "value" \notin DOMAIN result'[p]
                  /\ ~CreateInputOk(input'[p]) =>
                        Count(log'[p], "get") = 0 /\ Count(log'[p], "put") = 0
            /\ Count(log'[p], "put") <= 1
            /\ (CreateSucceeds(p) /\ registry = "kv") =>
                  log'[p] = <<"middleware", "validate", "handler", "get", "put">>]_vars

\* C21 witness: one create failed on its write after its read, another
\* succeeded with one read and one write, and the record holds the entity of
\* the second alone.
C21_Witness ==
    \E p, q \in Calls :
        /\ registry = "kv"
        /\ pc[p] = "done" /\ proc[p] = "create" /\ result[p] = StorageFailed
        /\ log[p] = <<"middleware", "validate", "handler", "get", "put">>
        /\ DoneOk(q, "create")
        /\ log[q] = <<"middleware", "validate", "handler", "get", "put">>
        /\ Record = <<result[q].value>>

-----------------------------------------------------------------------------
\* The creates that succeeded.
CreatedOk == {p \in Reqs : DoneOk(p, "create")}

\* C22: in the in-memory registry, whatever the order in which calls were
\* served, the array is the two seed entities followed by one entity per
\* successful create, with the ids 3, 4, ... in order; every successful create
\* returned an entity of the array and no two of them returned the same id.
C22_MemoryCreateSerial ==
    registry = "memory" =>
        /\ Len(planets) = 2 + Cardinality(CreatedOk)
        /\ SubSeq(planets, 1, 2) = SeedPlanets
        /\ \A i \in 1..Len(planets) : planets[i].id = i
        /\ \A p \in CreatedOk :
              /\ result[p].value.id \in 3..Len(planets)
              /\ planets[result[p].value.id] = result[p].value
              /\ result[p].value.name = CreateInputParse(input[p]).name
        /\ \A p, q \in CreatedOk : p # q => result[p].value.id # result[q].value.id

\* C22 witness: three creates of the in-memory registry succeeded, with the
\* ids 3, 4 and 5, and the array holds five entities.
C22_Witness ==
    /\ registry = "memory"
    /\ Cardinality(CreatedOk) = 3
    /\ {result[p].value.id : p \in CreatedOk} = {3, 4, 5}
    /\ Len(planets) = 5
    /\ planets[5].name = "B"

=============================================================================
